---- MODULE Spec2Model ----
(***************************************************************************)
(* Model of the ticket REST API (flask-smorest resource, marshmallow       *)
(* auto-schema with load_instance, SQLAlchemy session).                    *)
(***************************************************************************)
EXTENDS Integers, Sequences, FiniteSets, TLC

VARIABLES store, assigned, req, resp, n, txn

vars == <<store, assigned, req, resp, n, txn>>

\* ------------------------------------------------------------------ bounds
MaxId == 2
MaxReq == 2
MaxReqLong == 3
MaxWorkers == 2

\* ------------------------------------------------------- program constants
TitleLen == 120
ShortLen == 50

Ids == 1..MaxId
Workers == 1..MaxWorkers

\* ------------------------------------------------------------- JSON values
Str(x) == [t |-> "str", s |-> x]
Null == [t |-> "null", s |-> ""]
Num == [t |-> "int", s |-> ""]
Absent == [t |-> "absent", s |-> ""]

IsStr(v) == v.t = "str"

LongTitle == Str("xxxxxxxxxxxxxxxxxxxxxxxxxxxxxxxxxxxxxxxxxxxxxxxxxxxxxxxxxxxxxxxxxxxxxxxxxxxxxxxxxxxxxxxxxxxxxxxxxxxxxxxxxxxxxxxxxxxxxxxxx")

attrs == {"title", "description", "status", "priority"}

\* ---------------------------------------------------------- model / schema
\* Column constraints of Ticket as the auto-schema derives them.
TitleOk(v) == IsStr(v) /\ Len(v.s) <= TitleLen
DescriptionOk(v) == v = Null \/ IsStr(v)
ShortOk(v) == v = Null \/ (IsStr(v) /\ Len(v.s) <= ShortLen)

\* Validate without the length limit of the title column.
Validate_no_length(body, partial) ==
    /\ (~partial => body.title # Absent)
    /\ (body.title # Absent => IsStr(body.title))
    /\ (body.description # Absent => DescriptionOk(body.description))
    /\ (body.status # Absent => ShortOk(body.status))
    /\ (body.priority # Absent => ShortOk(body.priority))

\* TRUE iff TicketSchema(partial=partial).load(body) raises no ValidationError.
Validate(body, partial) ==
    /\ (~partial => body.title # Absent)
    /\ (body.title # Absent => TitleOk(body.title))
    /\ (body.description # Absent => DescriptionOk(body.description))
    /\ (body.status # Absent => ShortOk(body.status))
    /\ (body.priority # Absent => ShortOk(body.priority))

\* load_instance: the stored row the body's primary key names, else 0.
get_instance(s, bid) == IF bid # 0 /\ bid \in DOMAIN s THEN bid ELSE 0

\* setattr(instance, key, value) for every key of the body
SetAttrs(t, body) == [a \in attrs |-> IF body[a] # Absent THEN body[a] ELSE t[a]]

\* Ticket(**data): attributes the body lacks are None
NewTicket(body) == [a \in attrs |-> IF body[a] # Absent THEN body[a] ELSE Null]

\* The object the schema hands the view: a stored row with the body applied
\* (pending in the session), or a transient Ticket.
make_instance(s, bid, body) ==
    LET k == get_instance(s, bid)
    IN IF k # 0
       THEN [persistent |-> TRUE, id |-> k, obj |-> SetAttrs(s[k], body)]
       ELSE [persistent |-> FALSE, id |-> bid, obj |-> NewTicket(body)]

\* The session's view of the table after the load and before the view runs.
Session(s, inst) ==
    IF inst.persistent THEN [s EXCEPT ![inst.id] = inst.obj] ELSE s

\* INSERT: a None attribute of a column with a default takes the default.
InsertDefaults(t) ==
    [t EXCEPT !.status = IF @ = Null THEN Str("open") ELSE @,
              !.priority = IF @ = Null THEN Str("medium") ELSE @]

Max(S) == CHOOSE x \in S : \A y \in S : y <= x

\* The primary key the store gives a row inserted without one.
NewId(s, used) == Max({0} \cup DOMAIN s \cup used) + 1

\* ---------------------------------------------------------------- requests
NoBody == [a \in attrs |-> Absent]
NoReq == [op |-> "none", id |-> 0, bid |-> 0, body |-> NoBody]
NoResp == [code |-> 0, id |-> 0]

TitleVals == {Absent, Null, Num, LongTitle, Str(""), Str("a")}
DescriptionVals == {Absent, Null, Num, Str("d")}
StatusVals == {Absent, Null, Str("closed")}
PriorityVals == {Absent, Null, Str("low")}

Bodies == [title : TitleVals, description : DescriptionVals,
           status : StatusVals, priority : PriorityVals]

Requests ==
    [op : {"POST"}, id : {0}, bid : {0} \cup Ids, body : Bodies]
    \cup [op : {"PUT"}, id : Ids, bid : {0} \cup Ids, body : Bodies]
    \cup [op : {"GET", "DELETE"}, id : Ids, bid : {0}, body : {NoBody}]
    \cup {[op |-> "LIST", id |-> 0, bid |-> 0, body |-> NoBody]}

EmptyStore == [i \in {} |-> NewTicket(NoBody)]

\* A worker's request: its arguments, how far it got, the row as its session
\* read it, the object as the view left it, and its answer.
IdleTxn == [op |-> "none", bid |-> 0, body |-> NoBody, st |-> "idle",
            snap |-> NewTicket(NoBody), obj |-> NewTicket(NoBody), code |-> 0]

Init ==
    /\ store = EmptyStore
    /\ assigned = {}
    /\ req = NoReq
    /\ resp = NoResp
    /\ n = 0
    /\ txn = << >>

\* ---------------------------------------------------------------- handlers
\* TicketList.post behind @blp.arguments(TicketSchema): the table, the ids
\* given out and the response after the request.
post(s, used, bid, body) ==
    IF ~Validate(body, FALSE)
    THEN [store |-> s, assigned |-> used, code |-> 422, id |-> 0]
    ELSE LET inst == make_instance(s, bid, body)
         IN IF inst.persistent
            THEN [store |-> Session(s, inst), assigned |-> used,
                  code |-> 201, id |-> inst.id]
            ELSE LET k == IF inst.id # 0 THEN inst.id ELSE NewId(s, used)
                 IN [store |-> (k :> InsertDefaults(inst.obj)) @@ s,
                     assigned |-> used \cup {k}, code |-> 201, id |-> k]

\* Merge without the `is not None` test: every attribute is copied.
Merge_all(existing, updated) == updated

\* The loop of TicketById.put: every attribute of the loaded object that is
\* not None is copied to the stored ticket.
Merge(existing, updated) ==
    [a \in attrs |-> IF updated[a] # Null THEN updated[a] ELSE existing[a]]

\* put with the session's pending changes committed when the lookup fails.
put_no_rollback(s, id, bid, body) ==
    IF ~Validate(body, TRUE)
    THEN [store |-> s, code |-> 422, id |-> 0]
    ELSE LET inst == make_instance(s, bid, body)
             sess == Session(s, inst)
         IN IF id \notin DOMAIN sess
            THEN [store |-> sess, code |-> 404, id |-> 0]
            ELSE [store |-> [sess EXCEPT ![id] = Merge(sess[id], inst.obj)],
                  code |-> 200, id |-> id]

\* TicketById.put behind @blp.arguments(TicketSchema(partial=True)).
put(s, id, bid, body) ==
    IF ~Validate(body, TRUE)
    THEN [store |-> s, code |-> 422, id |-> 0]
    ELSE LET inst == make_instance(s, bid, body)
             sess == Session(s, inst)
         IN IF id \notin DOMAIN sess
            THEN [store |-> s, code |-> 404, id |-> 0]
            ELSE [store |-> [sess EXCEPT ![id] = Merge(sess[id], inst.obj)],
                  code |-> 200, id |-> id]

\* TicketById.delete
delete(s, id) ==
    IF id \notin DOMAIN s
    THEN [store |-> s, code |-> 404, id |-> 0]
    ELSE [store |-> [i \in DOMAIN s \ {id} |-> s[i]], code |-> 204, id |-> 0]

\* TicketById.get
get(s, id) ==
    IF id \notin DOMAIN s
    THEN [store |-> s, code |-> 404, id |-> 0]
    ELSE [store |-> s, code |-> 200, id |-> id]

\* ----------------------------------------------------------------- actions
\* A request arrives and is routed to its view.
Receive(r) ==
    /\ req = NoReq
    /\ (r.op = "POST" /\ r.bid = 0 => NewId(store, assigned) <= MaxId)
    /\ req' = r
    /\ resp' = NoResp
    /\ n' = n + 1
    /\ UNCHANGED <<store, assigned, txn>>

Pending(op) == req.op = op /\ resp = NoResp

TicketList_get ==
    /\ Pending("LIST")
    /\ resp' = [code |-> 200, id |-> 0]
    /\ UNCHANGED <<store, assigned, req, n, txn>>

TicketList_post ==
    /\ Pending("POST")
    /\ LET r == post(store, assigned, req.bid, req.body)
       IN /\ store' = r.store
          /\ assigned' = r.assigned
          /\ resp' = [code |-> r.code, id |-> r.id]
    /\ UNCHANGED <<req, n, txn>>

TicketById_get ==
    /\ Pending("GET")
    /\ LET r == get(store, req.id)
       IN resp' = [code |-> r.code, id |-> r.id]
    /\ UNCHANGED <<store, assigned, req, n, txn>>

TicketById_put ==
    /\ Pending("PUT")
    /\ LET r == put(store, req.id, req.bid, req.body)
       IN /\ store' = r.store
          /\ resp' = [code |-> r.code, id |-> r.id]
    /\ UNCHANGED <<assigned, req, n, txn>>

TicketById_delete ==
    /\ Pending("DELETE")
    /\ LET r == delete(store, req.id)
       IN /\ store' = r.store
          /\ resp' = [code |-> r.code, id |-> r.id]
    /\ UNCHANGED <<assigned, req, n, txn>>

\* The response is returned and the request's session is discarded.
Respond ==
    /\ req # NoReq
    /\ resp # NoResp
    /\ req' = NoReq
    /\ resp' = NoResp
    /\ UNCHANGED <<store, assigned, n, txn>>

\* Runs of at most `limit` requests.
NextUpTo(limit) ==
    \/ (req = NoReq /\ n < limit /\ \E r \in Requests : Receive(r))
    \/ TicketList_get
    \/ TicketList_post
    \/ TicketById_get
    \/ TicketById_put
    \/ TicketById_delete
    \/ Respond

Next == NextUpTo(MaxReq)

Spec == Init /\ [][Next]_vars

NextLong == NextUpTo(MaxReqLong)

SpecLong == Init /\ [][NextLong]_vars


\* ------------------------------------------------- concurrent PUT / DELETE
\* Each worker serves one request on the same ticket in its own session: it
\* reads the row, changes the loaded object in memory, and later commits.
ConcId == NewId(EmptyStore, {})

ConcSeed == post(EmptyStore, {}, 0, [NoBody EXCEPT !.title = Str("a")])

ConcBodies == [title : {Absent, Str(""), Str("a")}, description : {Absent},
               status : {Absent, Null, Str("closed")}, priority : {Absent}]

InitConc ==
    /\ store = ConcSeed.store
    /\ assigned = ConcSeed.assigned
    /\ req = NoReq
    /\ resp = NoResp
    /\ n = 0
    /\ txn = [w \in Workers |-> IdleTxn]

Finish(w, code) ==
    txn' = [txn EXCEPT ![w].st = "done", ![w].code = code,
                       ![w].snap = IdleTxn.snap, ![w].obj = IdleTxn.obj]

\* TicketById.put up to its commit: validation, load, lookup and the loop.
put_load(w, bid, body) ==
    /\ txn[w].st = "idle"
    /\ LET t == [txn[w] EXCEPT !.op = "PUT", !.bid = bid, !.body = body]
           inst == make_instance(store, bid, body)
           sess == Session(store, inst)
       IN IF ~Validate(body, TRUE)
          THEN txn' = [txn EXCEPT ![w] = [t EXCEPT !.st = "done", !.code = 422]]
          ELSE IF ConcId \notin DOMAIN sess
          THEN txn' = [txn EXCEPT ![w] = [t EXCEPT !.st = "done", !.code = 404]]
          ELSE txn' = [txn EXCEPT ![w] =
                          [t EXCEPT !.st = "loaded",
                                    !.snap = store[ConcId],
                                    !.obj = Merge(sess[ConcId], inst.obj)]]
    /\ UNCHANGED <<store, assigned, req, resp, n>>

\* flush_update as an upsert: the object is written whether or not its row
\* is still there.
flush_upsert(s, id, snap, obj) ==
    [store |-> (id :> obj) @@ s, code |-> 200]

\* The flush of a changed object: UPDATE of the attributes that differ from
\* the loaded ones, WHERE id matches; no matching row is a stale-data error.
flush_update(s, id, snap, obj) ==
    LET changed == {a \in attrs : obj[a] # snap[a]}
    IN IF changed = {}
       THEN [store |-> s, code |-> 200]
       ELSE IF id \notin DOMAIN s
       THEN [store |-> s, code |-> 500]
       ELSE [store |-> [s EXCEPT ![id] =
                          [a \in attrs |-> IF a \in changed THEN obj[a] ELSE @[a]]],
             code |-> 200]

\* db.session.commit() of TicketById.put
put_commit(w) ==
    /\ txn[w].st = "loaded"
    /\ txn[w].op = "PUT"
    /\ LET r == flush_update(store, ConcId, txn[w].snap, txn[w].obj)
       IN /\ store' = r.store
          /\ Finish(w, r.code)
    /\ UNCHANGED <<assigned, req, resp, n>>

\* TicketById.delete up to its commit: the lookup and session.delete.
delete_load(w) ==
    /\ txn[w].st = "idle"
    /\ LET t == [txn[w] EXCEPT !.op = "DELETE"]
       IN IF ConcId \notin DOMAIN store
          THEN txn' = [txn EXCEPT ![w] = [t EXCEPT !.st = "done", !.code = 404]]
          ELSE txn' = [txn EXCEPT ![w] = [t EXCEPT !.st = "loaded"]]
    /\ UNCHANGED <<store, assigned, req, resp, n>>

\* The flush of a deleted object: DELETE WHERE id matches; no matching row
\* is only warned about.
flush_delete(s, id) == [i \in DOMAIN s \ {id} |-> s[i]]

\* db.session.commit() of TicketById.delete
delete_commit(w) ==
    /\ txn[w].st = "loaded"
    /\ txn[w].op = "DELETE"
    /\ store' = flush_delete(store, ConcId)
    /\ Finish(w, 204)
    /\ UNCHANGED <<assigned, req, resp, n>>

NextConc ==
    \/ \E w \in Workers, bid \in {0, ConcId}, body \in ConcBodies : put_load(w, bid, body)
    \/ \E w \in Workers : put_commit(w)
    \/ \E w \in Workers : delete_load(w)
    \/ \E w \in Workers : delete_commit(w)

SpecConc == InitConc /\ [][NextConc]_vars

\* ------------------------------------------------------------------ claims
\* The step in which the view of a pending `op` request runs.
Handles(op) == req.op = op /\ resp = NoResp /\ resp' # NoResp

\* A request that has been answered with `code`.
Answered(op, code) == req.op = op /\ resp.code = code

Kept(k) == k \in DOMAIN store' /\ store'[k] = store[k]

\* C1: every successful POST returns an id that no earlier POST returned,
\* ids of deleted tickets included.
C1_FreshId ==
    [][Handles("POST") /\ resp'.code = 201 => resp'.id \notin assigned]_vars

\* C2: a POST body with an id key is rejected or creates a new ticket under
\* the id the store chooses, and leaves every stored ticket as it was.
C2_ClientIdIgnored ==
    [][Handles("POST") /\ req.bid # 0
        => /\ \A k \in DOMAIN store : Kept(k)
           /\ (resp'.code = 201 => resp'.id = NewId(store, assigned))]_vars

\* The values C3 calls valid and non-null.
ValidValue(a, v) ==
    /\ IsStr(v)
    /\ (a = "title" => Len(v.s) <= TitleLen)
    /\ (a \in {"status", "priority"} => Len(v.s) <= ShortLen)

\* C3: a PUT on an existing id whose body holds only valid non-null values
\* of title, description, status, priority is answered 200; the ticket then
\* has the body's value in each field of the body and its old value in the
\* others, under the same id.
C3_PartialUpdate ==
    [][(/\ Handles("PUT")
        /\ req.id \in DOMAIN store
        /\ req.bid = 0
        /\ \A a \in attrs : req.body[a] = Absent \/ ValidValue(a, req.body[a]))
        => /\ resp'.code = 200
           /\ req.id \in DOMAIN store'
           /\ \A a \in attrs :
                store'[req.id][a] =
                    IF req.body[a] # Absent THEN req.body[a] ELSE store[req.id][a]]_vars

\* C3 witness: a PUT changed the title and the ticket still has the
\* description it was created with.
C3_Witness ==
    /\ Answered("PUT", 200)
    /\ req.bid = 0
    /\ req.body.title = Str("") /\ req.body.description = Absent
    /\ req.body.status = Str("closed") /\ req.body.priority = Absent
    /\ store[req.id] = [title |-> Str(""), description |-> Str("d"),
                        status |-> Str("closed"), priority |-> Str("medium")]

InvalidCreate(body) ==
    \/ body.title = Absent
    \/ ~IsStr(body.title)
    \/ Len(body.title.s) > TitleLen
    \/ \E a \in {"description", "status", "priority"} : body[a] = Num

C6_TitleNonEmpty ==
    \A k \in DOMAIN store : store[k].title # Null /\ store[k].title # Str("")

\* The value C7 expects of a created ticket's status or priority.
Supplied(v, default) == IF v \in {Absent, Null} THEN Str(default) ELSE v

\* C7: a ticket created by a successful POST has the status and priority of
\* the body, "open" and "medium" where the body has none; and no PUT leaves
\* a stored ticket with a null status or priority.
C7_Defaults ==
    [][/\ (Handles("POST") /\ resp'.code = 201 /\ resp'.id \notin DOMAIN store
            => /\ store'[resp'.id].status = Supplied(req.body.status, "open")
               /\ store'[resp'.id].priority = Supplied(req.body.priority, "medium"))
       /\ (Handles("PUT")
            => \A k \in DOMAIN store' :
                   store'[k].status # Null /\ store'[k].priority # Null)]_vars

\* The body with its explicit nulls removed.
StripNulls(body) == [a \in attrs |-> IF body[a] = Null THEN Absent ELSE body[a]]

\* C8: on an existing ticket, a PUT body with explicit nulls is answered and
\* applied exactly as the same body without those keys: 200, and the fields
\* keep their stored values.
C8_NullIsAbsent ==
    [][(/\ Handles("PUT")
        /\ req.id \in DOMAIN store
        /\ Validate(StripNulls(req.body), TRUE))
        => /\ resp'.code = 200
           /\ \A a \in attrs :
                req.body[a] = Null => store'[req.id][a] = store[req.id][a]]_vars

\* A PUT that committed wrote `v` to attribute `a`.
Written(a, v) ==
    \E w \in Workers :
        /\ txn[w].op = "PUT" /\ txn[w].st = "done" /\ txn[w].code = 200
        /\ txn[w].body[a] = v

\* C9: under any interleaving of PUT and DELETE requests on one ticket, a
\* request that fails changes nothing, a ticket that is gone stays gone, and
\* every field of the ticket holds its first value or one a committed PUT
\* wrote.
C9_NoCorruption ==
    /\ [](ConcId \in DOMAIN store =>
            \A a \in attrs :
                store[ConcId][a] = ConcSeed.store[ConcId][a]
                \/ Written(a, store[ConcId][a]))
    /\ [][/\ (ConcId \notin DOMAIN store => ConcId \notin DOMAIN store')
          /\ \A w \in Workers :
                txn'[w].code \notin {0, 200, 204} /\ txn[w].code = 0
                    => store' = store]_vars

\* C9 witness: a PUT that had loaded the ticket and changed it failed at
\* its commit because a DELETE had committed in between.
C9_Witness ==
    /\ ConcId \notin DOMAIN store
    /\ \E w \in Workers : txn[w].op = "PUT" /\ txn[w].code = 500
    /\ \E w \in Workers : txn[w].op = "DELETE" /\ txn[w].code = 204

\* C10: a PUT or DELETE changes no ticket but the one its path names.
C10_Frame ==
    [][(\E op \in {"PUT", "DELETE"} : Handles(op))
        => \A k \in DOMAIN store \ {req.id} : Kept(k)]_vars
====
